---- MODULE Spec2Model ----
(***************************************************************************)
(* Model of the grape-asylum annotation pipeline (extractor.py): the five  *)
(* VOC processing strategies, VOCProcessor.process and process_dataset.    *)
(*                                                                         *)
(* Python strings are sequences of one-character strings, so that split,   *)
(* join, indexing, int() and float() are computed and not assumed.         *)
(***************************************************************************)
EXTENDS Integers, Sequences, FiniteSets

\* ------------------------------------------------------------------------
\* Python values
\* ------------------------------------------------------------------------

\* The text of an element that has none (ElementTree gives None for <name/>).
None == <<"None">>

\* find() returned None: the element is not in the tree.
Absent == <<"Absent">>

Digits == <<"0", "1", "2", "3", "4", "5", "6", "7", "8", "9">>

IsDigit(c) == \E i \in 1..Len(Digits) : Digits[i] = c

DigitVal(c) == (CHOOSE i \in 1..Len(Digits) : Digits[i] = c) - 1

Range(s) == {s[i] : i \in 1..Len(s)}

\* The body of a numeric literal after its sign, as int() and float() read it:
\* digits, with single underscores allowed between two digits.
IsDigitRun(s) ==
    /\ Len(s) > 0
    /\ \A i \in 1..Len(s) :
          \/ IsDigit(s[i])
          \/ /\ s[i] = "_"
             /\ i > 1 /\ i < Len(s)
             /\ IsDigit(s[i - 1]) /\ IsDigit(s[i + 1])

RECURSIVE DigitsValue(_, _)
DigitsValue(s, acc) ==
    IF s = <<>> THEN acc
    ELSE IF Head(s) = "_" THEN DigitsValue(Tail(s), acc)
    ELSE DigitsValue(Tail(s), 10 * acc + DigitVal(Head(s)))

HasSign(s) == Len(s) > 0 /\ s[1] \in {"-", "+"}

Unsigned(s) == IF HasSign(s) THEN Tail(s) ELSE s

\* int(text): [raised, v].
PyInt(s) ==
    IF s = None THEN [raised |-> "TypeError", v |-> 0]
    ELSE IF ~IsDigitRun(Unsigned(s)) THEN [raised |-> "ValueError", v |-> 0]
    ELSE [raised |-> "none",
          v |-> IF HasSign(s) /\ s[1] = "-"
                   THEN 0 - DigitsValue(Unsigned(s), 0)
                   ELSE DigitsValue(Unsigned(s), 0)]

\* float(text) for decimal notation: [raised, neg, mant, scale] stands for
\* (-1)^neg * mant / 10^scale.
PyFloat(s) ==
    IF s = None THEN [raised |-> "TypeError", neg |-> FALSE, mant |-> 0, scale |-> 0]
    ELSE
      LET u    == Unsigned(s)
          dots == {i \in 1..Len(u) : u[i] = "."}
          dot  == IF dots = {} THEN Len(u) + 1 ELSE CHOOSE i \in dots : TRUE
          ip   == SubSeq(u, 1, dot - 1)
          fp   == SubSeq(u, dot + 1, Len(u))
          ok   == /\ Cardinality(dots) <= 1
                  /\ ip # <<>> \/ fp # <<>>
                  /\ ip = <<>> \/ IsDigitRun(ip)
                  /\ fp = <<>> \/ IsDigitRun(fp)
          fdig == SelectSeq(fp, IsDigit)
      IN  IF ~ok THEN [raised |-> "ValueError", neg |-> FALSE, mant |-> 0, scale |-> 0]
          ELSE [raised |-> "none",
                neg    |-> HasSign(s) /\ s[1] = "-",
                mant   |-> DigitsValue(ip \o fp, 0),
                scale  |-> Len(fdig)]

\* f != 0 for a parsed float (-0.0 equals 0).
FloatNonZero(f) == f.mant # 0

\* str(n) for an integer.
RECURSIVE PyStrNat(_)
PyStrNat(n) ==
    IF n < 10 THEN <<Digits[n + 1]>>
    ELSE PyStrNat(n \div 10) \o <<Digits[(n % 10) + 1]>>

PyStr(n) == IF n < 0 THEN <<"-">> \o PyStrNat(0 - n) ELSE PyStrNat(n)

\* sep.join(parts)
RECURSIVE Join(_, _)
Join(sep, parts) ==
    IF parts = <<>> THEN <<>>
    ELSE IF Len(parts) = 1 THEN parts[1]
    ELSE parts[1] \o <<sep>> \o Join(sep, Tail(parts))

\* s.split(sep) for a one-character separator.
RECURSIVE SplitFrom(_, _, _)
SplitFrom(s, sep, cur) ==
    IF s = <<>> THEN <<cur>>
    ELSE IF Head(s) = sep THEN <<cur>> \o SplitFrom(Tail(s), sep, <<>>)
    ELSE SplitFrom(Tail(s), sep, Append(cur, Head(s)))

Split(s, sep) == SplitFrom(s, sep, <<>>)

Last(s) == s[Len(s)]

\* An element of a Python list that mixes int and str: its type and its
\* value, an int's value written as its canonical decimal numeral.
IntV(n) == [t |-> "int", v |-> PyStr(n)]

StrV(s) == [t |-> "str", v |-> s]

\* a == b between an int and a str is False.
PyEq(a, b) == a.t = b.t /\ a.v = b.v

\* x in list
PyIn(x, list) == \E i \in 1..Len(list) : PyEq(list[i], x)

\* A dict as its items in insertion order.
DictHas(d, k) == \E i \in 1..Len(d) : d[i][1] = k

DictGet(d, k) == d[CHOOSE i \in 1..Len(d) : d[i][1] = k][2]

DictSet(d, k, val) ==
    IF DictHas(d, k)
       THEN [i \in 1..Len(d) |-> IF d[i][1] = k THEN <<k, val>> ELSE d[i]]
       ELSE Append(d, <<k, val>>)

\* ------------------------------------------------------------------------
\* The annotation tree
\* ------------------------------------------------------------------------

\* One <object>: bndbox also tells the elements of a document apart (rules
\* never change it); bbch and rotation are the texts of the <value> of the
\* attribute of that name, or Absent.
Object(b, name, bbch, rotation) ==
    [bndbox |-> b, name |-> name, bbch |-> bbch, rotation |-> rotation]

Tree(folder, filename, objects) ==
    [folder |-> folder, filename |-> filename, objects |-> objects]

\* tree.findall('object'): a new list of the child elements.
FindAll(tree) == [i \in 1..Len(tree.objects) |-> tree.objects[i].bndbox]

Elem(tree, b) ==
    tree.objects[CHOOSE i \in 1..Len(tree.objects) : tree.objects[i].bndbox = b]

\* SetName gone wrong: the relabelled element is a copy added to the tree.
SetNameOnCopy(tree, b, text) ==
    [tree EXCEPT !.objects =
        Append(tree.objects, [Elem(tree, b) EXCEPT !.name = text])]

\* element.find('./name').text = text
SetName(tree, b, text) ==
    [tree EXCEPT !.objects =
        [i \in 1..Len(tree.objects) |->
            IF tree.objects[i].bndbox = b
               THEN [tree.objects[i] EXCEPT !.name = text]
               ELSE tree.objects[i]]]

\* tree.remove(element)
Remove(tree, b) ==
    LET Other(o) == o.bndbox # b
    IN  [tree EXCEPT !.objects = SelectSeq(tree.objects, Other)]

Ok(tree) == [raised |-> "none", tree |-> tree]

Raise(e, tree) == [raised |-> e, tree |-> tree]

\* ------------------------------------------------------------------------
\* The strategies
\* ------------------------------------------------------------------------

RECURSIVE MoveLoop(_, _)
MoveLoop(found, tree) ==
    IF found = <<>> THEN Ok(tree)
    ELSE LET o == Elem(tree, Head(found))
         IN  IF o.bbch = Absent
                THEN Raise("AttributeError", tree)
                ELSE MoveLoop(Tail(found), SetName(tree, o.bndbox, o.bbch))

\* MoveBBCHCodeApply gone wrong: an object without the BBCH attribute keeps
\* its label and the loop goes on.
RECURSIVE MoveLenientLoop(_, _)
MoveLenientLoop(found, tree) ==
    IF found = <<>> THEN Ok(tree)
    ELSE LET o == Elem(tree, Head(found))
         IN  IF o.bbch = Absent
                THEN MoveLenientLoop(Tail(found), tree)
                ELSE MoveLenientLoop(Tail(found), SetName(tree, o.bndbox, o.bbch))

MoveBBCHCodeApplyLenient(tree) == MoveLenientLoop(FindAll(tree), tree)

MoveBBCHCodeApply(tree) == MoveLoop(FindAll(tree), tree)

RECURSIVE RotatedLoop(_, _)
RotatedLoop(found, tree) ==
    IF found = <<>> THEN Ok(tree)
    ELSE LET o == Elem(tree, Head(found))
             f == PyFloat(o.rotation)
         IN  IF o.rotation = Absent
                THEN RotatedLoop(Tail(found), tree)
                ELSE IF f.raised # "none" THEN Raise(f.raised, tree)
                ELSE IF FloatNonZero(f)
                        THEN RotatedLoop(Tail(found), Remove(tree, o.bndbox))
                        ELSE RotatedLoop(Tail(found), tree)

\* RemoveRotatedGrapesApply gone wrong: the loop runs over the tree itself and
\* not over the list findall built, so a removal makes it skip the next child.
RECURSIVE RotatedLiveLoop(_, _)
RotatedLiveLoop(i, tree) ==
    IF i > Len(tree.objects) THEN Ok(tree)
    ELSE LET o == tree.objects[i]
             f == PyFloat(o.rotation)
         IN  IF o.rotation = Absent
                THEN RotatedLiveLoop(i + 1, tree)
                ELSE IF f.raised # "none" THEN Raise(f.raised, tree)
                ELSE IF FloatNonZero(f)
                        THEN RotatedLiveLoop(i + 1, Remove(tree, o.bndbox))
                        ELSE RotatedLiveLoop(i + 1, tree)

RemoveRotatedGrapesApplyLive(tree) == RotatedLiveLoop(1, tree)

RemoveRotatedGrapesApply(tree) == RotatedLoop(FindAll(tree), tree)

RECURSIVE UnwantedLoop(_, _, _)
UnwantedLoop(bbch_codes, found, tree) ==
    IF found = <<>> THEN Ok(tree)
    ELSE LET o == Elem(tree, Head(found))
             name_element == PyInt(o.name)
         IN  IF name_element.raised # "none" THEN Raise(name_element.raised, tree)
             ELSE IF ~PyIn(IntV(name_element.v), bbch_codes)
                     THEN UnwantedLoop(bbch_codes, Tail(found), Remove(tree, o.bndbox))
                     ELSE UnwantedLoop(bbch_codes, Tail(found), tree)

RemoveUnwantedBBCHAnnotationsApply(bbch_codes, tree) ==
    UnwantedLoop(bbch_codes, FindAll(tree), tree)

\* ClusterBBCHCodeStrategy.__init__: the label -> cluster key dict.
RECURSIVE ClusterElems(_, _, _)
ClusterElems(d, cluster, cluster_str_repr) ==
    IF cluster = <<>> THEN d
    ELSE ClusterElems(DictSet(d, PyStr(Head(cluster)), cluster_str_repr),
                      Tail(cluster), cluster_str_repr)

RECURSIVE ClusterInitFrom(_, _)
ClusterInitFrom(d, bbch_code_clusters) ==
    IF bbch_code_clusters = <<>> THEN d
    ELSE LET cluster == Head(bbch_code_clusters)
             cluster_str_repr ==
                 Join("_", [i \in 1..Len(cluster) |-> PyStr(cluster[i])])
         IN  ClusterInitFrom(ClusterElems(d, cluster, cluster_str_repr),
                             Tail(bbch_code_clusters))

ClusterInit(bbch_code_clusters) == ClusterInitFrom(<<>>, bbch_code_clusters)

RECURSIVE ClusterLoop(_, _, _)
ClusterLoop(table, found, tree) ==
    IF found = <<>> THEN Ok(tree)
    ELSE LET o == Elem(tree, Head(found))
         IN  IF ~DictHas(table, o.name)
                THEN ClusterLoop(table, Tail(found), Remove(tree, o.bndbox))
                ELSE ClusterLoop(table, Tail(found),
                                 SetName(tree, o.bndbox, DictGet(table, o.name)))

ClusterBBCHCodeApply(table, tree) == ClusterLoop(table, FindAll(tree), tree)

RECURSIVE GeneralizeLoop(_, _)
GeneralizeLoop(found, tree) ==
    IF found = <<>> THEN Ok(tree)
    ELSE LET o == Elem(tree, Head(found))
         IN  IF o.name = None THEN Raise("TypeError", tree)
             ELSE IF o.name = <<>> THEN Raise("IndexError", tree)
             ELSE GeneralizeLoop(Tail(found),
                                 SetName(tree, o.bndbox, <<o.name[1]>>))

GeneralizeBBCHCodeApply(tree) == GeneralizeLoop(FindAll(tree), tree)

\* Strategy objects: the class and what __init__ stored.
MoveBBCHCodeStrategy == [kind |-> "MoveBBCHCode", arg |-> <<>>]

RemoveRotatedGrapesStrategy == [kind |-> "RemoveRotatedGrapes", arg |-> <<>>]

RemoveUnwantedBBCHAnnotationsStrategy(bbch_codes) ==
    [kind |-> "RemoveUnwantedBBCHAnnotations", arg |-> bbch_codes]

ClusterBBCHCodeStrategy(bbch_code_clusters) ==
    [kind |-> "ClusterBBCHCode", arg |-> ClusterInit(bbch_code_clusters)]

GeneralizeBBCHCodeStrategy == [kind |-> "GeneralizeBBCHCode", arg |-> <<>>]

NoStrategy == [kind |-> "none", arg |-> <<>>]

\* strategy.apply(tree)
Apply(strategy, tree) ==
    CASE strategy.kind = "MoveBBCHCode" -> MoveBBCHCodeApply(tree)
      [] strategy.kind = "RemoveRotatedGrapes" -> RemoveRotatedGrapesApply(tree)
      [] strategy.kind = "RemoveUnwantedBBCHAnnotations" ->
             RemoveUnwantedBBCHAnnotationsApply(strategy.arg, tree)
      [] strategy.kind = "ClusterBBCHCode" -> ClusterBBCHCodeApply(strategy.arg, tree)
      [] strategy.kind = "GeneralizeBBCHCode" -> GeneralizeBBCHCodeApply(tree)

\* VOCProcessor.process
RECURSIVE Process(_, _)
Process(strategies, subtree) ==
    IF strategies = <<>> THEN Ok(subtree)
    ELSE LET r == Apply(Head(strategies), subtree)
         IN  IF r.raised # "none" THEN r
             ELSE Process(Tail(strategies), r.tree)

\* ------------------------------------------------------------------------
\* Inputs
\* ------------------------------------------------------------------------

\* Most <object> elements of one document.
MaxObjects == 2

\* Most strategies of one VOCProcessor.
MaxStrategies == 2

NameTexts == {<<"7", "1">>, <<"7", "3">>}

BbchTexts == {Absent, <<"7", "3">>}

RotationTexts == {Absent, <<"0">>, <<"5">>, <<"x">>}

\* The object lists of at most n objects; the i-th has bounding box i.
ObjectLists(n) ==
    UNION {{[i \in 1..k |-> Object(i, f[i][1], f[i][2], f[i][3])] :
               f \in [1..k -> NameTexts \X BbchTexts \X RotationTexts]} :
           k \in 0..n}

PhotoFilename == <<"p", ".", "j">>

\* required_bbch_codes as the configuration may give it: the codes as str
\* (what __init__ declares) or as int.
AllowLists ==
    {<<>>,
     <<StrV(<<"7", "1">>)>>,
     <<IntV(71)>>,
     <<IntV(71), IntV(73)>>}

\* bbch_code_clusters as the configuration may give it; in the last one two
\* clusters share the code 73.
ClusterConfigs ==
    {<<>>,
     <<<<71, 73>>>>,
     <<<<71>>, <<73>>>>,
     <<<<7, 71>>, <<73>>>>,
     <<<<71, 73>>, <<73, 7>>>>}

\* ------------------------------------------------------------------------
\* State
\* ------------------------------------------------------------------------

VARIABLES
    origin,      \* the tree as parsed, before any strategy touched it
    subtree,     \* the tree the strategies work on (root in process_dataset)
    raised,      \* the exception that left the call, or "none"
    strategy,    \* process: the strategy applied last
    applied,     \* process: how many strategies were applied
    strategies,  \* process_dataset: voc_processor.strategies
    pc,          \* process_dataset: "loop", "returned" or "raised"
    nfiles,      \* process_dataset: iterations completed (progress_bar calls)
    uuids,       \* process_dataset: what uuid.uuid4() returned, in order
    annDir,      \* the files under output_annotation_path
    imgDir,      \* the files under output_photos_path
    jpc,                      \* transorm_voc_to_aws_json: "files", "objects",
                              \* "returned" or "raised"
    global_classes,           \* transorm_voc_to_aws_json: label -> class id
    json_document,            \* transorm_voc_to_aws_json: the document in the making
    current_file_categories,  \* transorm_voc_to_aws_json: class id -> label
    jsonDir                   \* the files under output_path

processVars == <<strategy, applied>>

datasetVars == <<strategies, pc, nfiles, uuids, annDir, imgDir>>

jsonVars ==
    <<jpc, global_classes, json_document, current_file_categories, jsonDir>>

vars == <<origin, subtree, raised, processVars, datasetVars, jsonVars>>

\* No document is in the making.
NoJson == [file |-> Absent, image_size |-> <<>>, annotations |-> <<>>,
           categories |-> <<>>]

\* transorm_voc_to_aws_json is not running.
JsonIdle ==
    /\ jpc = "idle"
    /\ global_classes = <<>>
    /\ json_document = NoJson
    /\ current_file_categories = <<>>
    /\ jsonDir = {}

NoTree == Tree(Absent, Absent, <<>>)

\* ------------------------------------------------------------------------
\* VOCProcessor.process, one strategy of self.strategies at a time
\* ------------------------------------------------------------------------

ProcessInit ==
    /\ origin \in {Tree(<<"f">>, PhotoFilename, objs) : objs \in ObjectLists(MaxObjects)}
    /\ subtree = origin
    /\ strategy = NoStrategy
    /\ applied = 0
    /\ raised = "none"
    /\ strategies = <<>>
    /\ pc = "process"
    /\ nfiles = 0
    /\ uuids = <<>>
    /\ annDir = {}
    /\ imgDir = {}
    /\ JsonIdle

\* subtree = strategy.apply(subtree), or the exception apply raised.
ApplyNext(s) ==
    /\ \E r \in {Apply(s, subtree)} :
           /\ subtree' = r.tree
           /\ raised' = r.raised
    /\ strategy' = s
    /\ applied' = applied + 1
    /\ UNCHANGED <<origin, datasetVars, jsonVars>>

\* The loop of process goes on: no exception yet, strategies left.
InLoop == raised = "none" /\ applied < MaxStrategies

MoveBBCHCode ==
    /\ InLoop
    /\ ApplyNext(MoveBBCHCodeStrategy)

RemoveRotatedGrapes ==
    /\ InLoop
    /\ ApplyNext(RemoveRotatedGrapesStrategy)

RemoveUnwantedBBCHAnnotations ==
    /\ InLoop
    /\ \E bbch_codes \in AllowLists :
           ApplyNext(RemoveUnwantedBBCHAnnotationsStrategy(bbch_codes))

ClusterBBCHCode ==
    /\ InLoop
    /\ \E bbch_code_clusters \in ClusterConfigs :
           ApplyNext(ClusterBBCHCodeStrategy(bbch_code_clusters))

GeneralizeBBCHCode ==
    /\ InLoop
    /\ ApplyNext(GeneralizeBBCHCodeStrategy)

ProcessNext ==
    \/ MoveBBCHCode
    \/ RemoveRotatedGrapes
    \/ RemoveUnwantedBBCHAnnotations
    \/ ClusterBBCHCode
    \/ GeneralizeBBCHCode

SpecProcess == ProcessInit /\ [][ProcessNext]_vars

\* ------------------------------------------------------------------------
\* process_dataset
\* ------------------------------------------------------------------------

\* Most xml files of one origin_voc_fileset.
MaxFiles == 2

\* subtree_has_grapes gone wrong: bool(grape_data_tree), true of a tree with
\* any child at all.
subtree_has_children(grape_data_tree) ==
    \/ grape_data_tree.folder # Absent
    \/ grape_data_tree.filename # Absent
    \/ FindAll(grape_data_tree) # <<>>

subtree_has_grapes(grape_data_tree) == FindAll(grape_data_tree) # <<>>

get_raw_filename(full_filepath) == Last(Split(full_filepath, "/"))

\* [raised, v]: .text of a missing <filename> and None.split both raise
\* AttributeError.
get_grape_img_filename(voc_tree) ==
    IF voc_tree.filename \in {Absent, None}
       THEN [raised |-> "AttributeError", v |-> <<>>]
       ELSE [raised |-> "none", v |-> get_raw_filename(voc_tree.filename)]

\* What uuid.uuid4() can return, as str() gives it. Version 4 UUIDs are 122
\* random bits; a value returned earlier in the run is taken not to come again.
UUIDs == {<<"a">> \o PyStr(i) : i \in 1..MaxFiles}

\* Uuid4 gone wrong: uuid4() called once, before the loop.
Uuid4Hoisted(earlier) == IF earlier = <<>> THEN UUIDs ELSE {earlier[1]}

Uuid4(earlier) == UUIDs \ Range(earlier)

TargetXmlFilename(filename) == filename \o <<".", "x", "m", "l">>

TargetImgFilename(filename, img_extension) == filename \o <<".">> \o img_extension

\* Writing a file replaces the file of that name.
WriteFile(dir, name, content) ==
    {f \in dir : f.name # name} \cup {[name |-> name, content |-> content]}

\* An entry of origin_voc_fileset: et.parse raises ParseError on a file that
\* is not well-formed XML.
XmlFile(root) == [wellformed |-> TRUE, root |-> root]

MalformedFile == [wellformed |-> FALSE, root |-> NoTree]

Grape(b, bbch, rotation) == Object(b, <<"7", "1">>, bbch, rotation)

SampleObjectLists ==
    {<<>>,
     <<Grape(1, <<"7", "3">>, <<"0">>)>>,
     <<Grape(1, <<"7", "3">>, <<"5">>)>>,
     <<Grape(1, <<"7", "3">>, <<"0">>), Grape(2, Absent, Absent)>>,
     <<Grape(1, <<"7", "1">>, <<"5">>), Grape(2, <<"7", "3">>, Absent)>>}

\* <filename> texts: plain, with a directory prefix, without an extension
\* separator (alone and under a dotted directory), and no <filename> at all.
SampleFilenames ==
    {PhotoFilename,
     <<"d", "/", "p", ".", "j">>,
     <<"p">>,
     <<"d", ".", "v", "/", "p">>,
     Absent}

XmlFiles ==
    {MalformedFile}
        \cup {XmlFile(Tree(<<"f">>, fn, objs)) :
                 fn \in SampleFilenames, objs \in SampleObjectLists}
        \cup {XmlFile(Tree(Absent, PhotoFilename, objs)) : objs \in SampleObjectLists}

\* The strategies of run(), and shorter processors.
Processors ==
    {<<>>,
     <<MoveBBCHCodeStrategy>>,
     <<RemoveRotatedGrapesStrategy>>,
     <<MoveBBCHCodeStrategy, RemoveRotatedGrapesStrategy,
       ClusterBBCHCodeStrategy(<<<<71, 73>>>>)>>,
     <<MoveBBCHCodeStrategy, RemoveRotatedGrapesStrategy,
       ClusterBBCHCodeStrategy(<<<<71>>>>)>>}

Init ==
    /\ strategies \in Processors
    /\ pc = "loop"
    /\ nfiles = 0
    /\ uuids = <<>>
    /\ annDir = {}
    /\ imgDir = {}
    /\ origin = NoTree
    /\ subtree = NoTree
    /\ raised = "none"
    /\ strategy = NoStrategy
    /\ applied = 0
    /\ JsonIdle

\* The exception e leaves process_dataset.
Abort(e) ==
    /\ pc' = "raised"
    /\ raised' = e
    /\ UNCHANGED nfiles

\* progress_bar(): the iteration is over.
Progress ==
    /\ pc' = pc
    /\ raised' = raised
    /\ nfiles' = nfiles + 1

\* Lines 154-171: the document has grapes left. root is the processed tree.
Emit(root, copied) ==
    LET img == get_grape_img_filename(root)
    IN  IF img.raised # "none"
           THEN /\ Abort(img.raised)
                /\ subtree' = root
                /\ UNCHANGED <<uuids, annDir, imgDir>>
           ELSE \E filename \in Uuid4(uuids) :
                  LET img_filename == img.v
                      img_extension == Last(Split(img_filename, "."))
                      target_xml_filename == TargetXmlFilename(filename)
                      target_img_filename == TargetImgFilename(filename, img_extension)
                      written == [root EXCEPT !.folder = <<>>,
                                              !.filename = target_img_filename]
                  IN  /\ uuids' = Append(uuids, filename)
                      /\ IF root.folder = Absent
                            THEN /\ Abort("AttributeError")
                                 /\ subtree' = root
                                 /\ UNCHANGED <<annDir, imgDir>>
                            ELSE /\ subtree' = written
                                 /\ annDir' = WriteFile(annDir, target_xml_filename, written)
                                 /\ IF copied
                                       THEN /\ imgDir' = WriteFile(imgDir, target_img_filename,
                                                                   img_filename)
                                            /\ Progress
                                       ELSE /\ Abort("FileNotFoundError")
                                            /\ UNCHANGED imgDir

\* One iteration of the loop over origin_voc_fileset: xml_file is the next
\* entry, copied tells whether shutil.copy finds and copies the image.
HandleFile ==
    /\ pc = "loop"
    /\ nfiles < MaxFiles
    /\ \E xml_file \in XmlFiles, copied \in BOOLEAN :
          IF ~xml_file.wellformed
             THEN /\ Abort("ParseError")
                  /\ UNCHANGED <<origin, subtree, uuids, annDir, imgDir>>
             ELSE /\ origin' = xml_file.root
                  /\ \E r \in {Process(strategies, xml_file.root)} :
                        IF r.raised # "none"
                           THEN /\ Abort(r.raised)
                                /\ subtree' = r.tree
                                /\ UNCHANGED <<uuids, annDir, imgDir>>
                           ELSE IF ~subtree_has_grapes(r.tree)
                                   THEN /\ Progress
                                        /\ subtree' = r.tree
                                        /\ UNCHANGED <<uuids, annDir, imgDir>>
                                   ELSE Emit(r.tree, copied)
    /\ UNCHANGED <<strategies, processVars, jsonVars>>

\* The fileset is exhausted: process_dataset returns.
Return ==
    /\ pc = "loop"
    /\ pc' = "returned"
    /\ UNCHANGED <<origin, subtree, raised, processVars, jsonVars,
                   strategies, nfiles, uuids, annDir, imgDir>>

Next == HandleFile \/ Return

Spec == Init /\ [][Next]_vars

\* ------------------------------------------------------------------------
\* Claims about process_dataset (Spec)
\* ------------------------------------------------------------------------

\* C1: an image that cannot be found or copied never makes an error leave
\* the batch: process_dataset does not end in the copy's exception.
C1_MissingImageNeverAborts ==
    ~(pc = "raised" /\ raised = "FileNotFoundError")

\* C2: a source document that cannot be parsed is skipped and never aborts
\* the batch: process_dataset does not end in the parser's exception.
C2_MalformedDocumentNeverAborts ==
    ~(pc = "raised" /\ raised = "ParseError")

\* C3: a document whose object list is empty after the pipeline writes
\* neither an annotation file nor an image file, and every annotation file
\* written holds at least one object.
C3_EmptyDocumentWritesNothing ==
    /\ [](\A f \in annDir : f.content.objects # <<>>)
    /\ [][(/\ pc = "loop" /\ pc' = "loop"
           /\ nfiles' = nfiles + 1
           /\ subtree'.objects = <<>>)
             => (annDir' = annDir /\ imgDir' = imgDir)]_vars

\* A document was discarded after another one had been written.
C3_Witness ==
    /\ pc = "loop"
    /\ nfiles = 2
    /\ origin.objects # <<>>
    /\ subtree.objects = <<>>
    /\ Cardinality(annDir) = 1
    /\ Cardinality(imgDir) = 1

OriginalExtension(full_filepath) ==
    LET base   == Last(Split(full_filepath, "/"))
        fields == Split(base, ".")
    IN  IF Len(fields) = 1 THEN <<>> ELSE Last(fields)

\* C5: for every surviving document the annotation file and the image file
\* carry the same identifier, the image is named <identifier>.<original
\* extension>, and the annotation's filename field is that image name.
C5_OutputNamedByIdentifierAndExtension ==
    (/\ pc \in {"loop", "returned"}
     /\ nfiles > 0
     /\ subtree.objects # <<>>)
      => LET id   == Last(uuids)
             name == id \o <<".">> \o OriginalExtension(origin.filename)
         IN  /\ subtree.filename = name
             /\ \E a \in annDir :
                   /\ a.name = id \o <<".", "x", "m", "l">>
                   /\ a.content.filename = name
             /\ \E i \in imgDir : i.name = name

\* C10: MoveBBCHCodeStrategy sets every object's label to its BBCH value;
\* when an object lacks the BBCH attribute the rule raises AttributeError and
\* neither an annotation nor an image is written for that document.
C10_MoveFailsOnMissingBBCH ==
    [][(/\ pc = "loop" /\ pc' # "returned"
        /\ raised' # "ParseError"
        /\ strategies # <<>>
        /\ strategies[1].kind = "MoveBBCHCode")
          => IF \E i \in 1..Len(origin'.objects) : origin'.objects[i].bbch = Absent
                THEN /\ pc' = "raised"
                     /\ raised' = "AttributeError"
                     /\ annDir' = annDir
                     /\ imgDir' = imgDir
                ELSE (Len(strategies) = 1 /\ raised' # "AttributeError")
                       => /\ Len(subtree'.objects) = Len(origin'.objects)
                          /\ \A i \in 1..Len(origin'.objects) :
                                subtree'.objects[i].name = origin'.objects[i].bbch]_vars

\* After a document was written, the next one has an object without BBCH
\* behind one that has it, and the run ended in AttributeError.
C10_Witness ==
    /\ pc = "raised"
    /\ raised = "AttributeError"
    /\ strategies # <<>>
    /\ strategies[1].kind = "MoveBBCHCode"
    /\ nfiles = 1
    /\ Cardinality(annDir) = 1
    /\ Len(origin.objects) = 2
    /\ origin.objects[1].bbch # Absent
    /\ origin.objects[2].bbch = Absent

\* ------------------------------------------------------------------------
\* Claims about VOCProcessor.process and the strategies (SpecProcess)
\* ------------------------------------------------------------------------

\* C6: process returns a tree with no more objects than it was given; each
\* one is an object of the input, in the input's order, with at most its
\* label changed.
C6_ProcessOnlyRemovesOrRelabels ==
    raised = "none" =>
      /\ Len(subtree.objects) <= Len(origin.objects)
      /\ \A i \in 1..Len(subtree.objects) :
            \E j \in 1..Len(origin.objects) :
               subtree.objects[i] =
                  [origin.objects[j] EXCEPT !.name = subtree.objects[i].name]
      /\ \A i, j \in 1..Len(subtree.objects) :
            i < j => subtree.objects[i].bndbox < subtree.objects[j].bndbox

\* Two strategies ran: one object was removed and the other relabelled.
C6_Witness ==
    /\ raised = "none"
    /\ applied = 2
    /\ Len(origin.objects) = 2
    /\ Len(subtree.objects) = 1
    /\ \E j \in 1..2 :
          /\ origin.objects[j].bndbox = subtree.objects[1].bndbox
          /\ origin.objects[j].name # subtree.objects[1].name

\* The object carries a rotation attribute that parses to a nonzero value.
IsRotated(o) ==
    /\ o.rotation # Absent
    /\ PyFloat(o.rotation).raised = "none"
    /\ PyFloat(o.rotation).mant # 0

NotRotated(o) == ~IsRotated(o)

\* C7: RemoveRotatedGrapesStrategy removes exactly the objects whose rotation
\* attribute is present and parses to a nonzero value, whatever was removed
\* before them, and raises nothing on account of an object without rotation.
C7_RemovesExactlyTheRotated ==
    (strategy.kind = "RemoveRotatedGrapes" /\ applied = 1) =>
      /\ raised = "none" => subtree.objects = SelectSeq(origin.objects, NotRotated)
      /\ raised # "AttributeError"
      /\ raised # "none" =>
            \E i \in 1..Len(origin.objects) :
               /\ origin.objects[i].rotation # Absent
               /\ PyFloat(origin.objects[i].rotation).raised = raised

\* Objects A (rotation "0") and B (rotation "5") yield exactly A.
C7_Witness ==
    /\ strategy.kind = "RemoveRotatedGrapes"
    /\ applied = 1
    /\ raised = "none"
    /\ Len(origin.objects) = 2
    /\ origin.objects[1].rotation = <<"0">>
    /\ origin.objects[2].rotation = <<"5">>
    /\ subtree.objects = <<origin.objects[1]>>

\* The labels of the cluster, as the strategy writes them.
ClusterLabels(cluster) == {PyStr(cluster[i]) : i \in 1..Len(cluster)}

\* C8: whatever the clusters, two labels that appear together in one
\* configured cluster are rewritten to the same cluster key, and an object
\* whose label is in no cluster is removed.
C8_ClusterMatesShareKey ==
    (strategy.kind = "ClusterBBCHCode" /\ applied = 1 /\ raised = "none") =>
      \A cfg \in ClusterConfigs :
         strategy.arg = ClusterInit(cfg) =>
           /\ \A i, j \in 1..Len(origin.objects) :
                 (\E k \in 1..Len(cfg) :
                     /\ origin.objects[i].name \in ClusterLabels(cfg[k])
                     /\ origin.objects[j].name \in ClusterLabels(cfg[k]))
                   => \E m, n \in 1..Len(subtree.objects) :
                         /\ subtree.objects[m].bndbox = origin.objects[i].bndbox
                         /\ subtree.objects[n].bndbox = origin.objects[j].bndbox
                         /\ subtree.objects[m].name = subtree.objects[n].name
           /\ \A i \in 1..Len(origin.objects) :
                 (\A k \in 1..Len(cfg) :
                     origin.objects[i].name \notin ClusterLabels(cfg[k]))
                   => \A m \in 1..Len(subtree.objects) :
                         subtree.objects[m].bndbox # origin.objects[i].bndbox

\* The allow-list holds the label, each code taken in its canonical form.
Allowed(bbch_codes, label) ==
    \E i \in 1..Len(bbch_codes) : bbch_codes[i].v = label

\* C9: RemoveUnwantedBBCHAnnotationsStrategy keeps an object exactly when its
\* label is a member of the allow-list, a label held as the string of a code
\* matching that code in a list[str] allow-list.
C9_KeepsExactlyTheAllowed ==
    (/\ strategy.kind = "RemoveUnwantedBBCHAnnotations"
     /\ applied = 1
     /\ raised = "none") =>
      LET Keep(o) == Allowed(strategy.arg, o.name)
      IN  subtree.objects = SelectSeq(origin.objects, Keep)

\* ------------------------------------------------------------------------
\* transorm_voc_to_aws_json (voc2json.py)
\* ------------------------------------------------------------------------

\* s.replace(old, new)
RECURSIVE Replace(_, _, _)
Replace(s, old, new) ==
    IF Len(s) < Len(old) THEN s
    ELSE IF SubSeq(s, 1, Len(old)) = old
            THEN new \o Replace(SubSeq(s, Len(old) + 1, Len(s)), old, new)
            ELSE <<Head(s)>> \o Replace(Tail(s), old, new)

\* input_xml_file.split('/')[-1].replace('xml', 'json')
JsonFilename(input_xml_file) ==
    Replace(Last(Split(input_xml_file, "/")), <<"x", "m", "l">>, <<"j", "s", "o", "n">>)

\* The k-th entry of input_xml_files: the names of one directory differ.
InputXmlFile(k) == <<"d", "/", "v">> \o PyStr(k) \o <<".", "x", "m", "l">>

\* What et.parse gives for an entry: not well-formed, without <size>, or
\* complete.
JsonXmlFiles ==
    {MalformedFile,
     [wellformed |-> TRUE, root |-> Tree(<<"f">>, PhotoFilename, <<>>),
      size |-> Absent],
     [wellformed |-> TRUE, root |-> Tree(<<"f">>, PhotoFilename, <<>>),
      size |-> <<<<"6", "4">>, <<"4", "8">>>>]}

\* Texts of <name> in the curated documents; Absent: the object has no <name>.
JsonNameTexts == {<<"7", "1">>, <<"7", "3">>, <<"7", "1", "_", "7", "3">>, Absent}

\* The <bndbox> texts of the k-th object of a document: xmin, ymin, xmax, ymax.
BndboxTexts(k) == <<PyStr(k), PyStr(k), PyStr(k + 2), PyStr(k + 3)>>

\* NextClassId gone wrong: the ids are counted per file.
NextClassIdPerFile(classes, file_categories) == Len(file_categories)

\* len(global_classes), the id of a label seen for the first time.
NextClassId(classes, file_categories) == Len(classes)

JsonInit ==
    /\ jpc = "files"
    /\ global_classes = <<>>
    /\ json_document = NoJson
    /\ current_file_categories = <<>>
    /\ jsonDir = {}
    /\ origin = NoTree
    /\ subtree = NoTree
    /\ raised = "none"
    /\ strategy = NoStrategy
    /\ applied = 0
    /\ strategies = <<>>
    /\ pc = "json"
    /\ nfiles = 0
    /\ uuids = <<>>
    /\ annDir = {}
    /\ imgDir = {}

\* The exception e leaves transorm_voc_to_aws_json.
JsonAbort(e) ==
    /\ jpc' = "raised"
    /\ raised' = e

\* Lines 27-51: the next file is parsed and the document template filled.
OpenXmlFile ==
    /\ jpc = "files"
    /\ Cardinality(jsonDir) < MaxFiles
    /\ \E xml \in JsonXmlFiles :
          IF ~xml.wellformed
             THEN /\ JsonAbort("ParseError")
                  /\ UNCHANGED <<origin, json_document, current_file_categories>>
             ELSE /\ origin' = xml.root
                  /\ IF xml.root.filename = Absent \/ xml.size = Absent
                        THEN /\ JsonAbort("AttributeError")
                             /\ UNCHANGED <<json_document, current_file_categories>>
                        ELSE \E w \in {PyInt(xml.size[1])}, h \in {PyInt(xml.size[2])} :
                               IF w.raised # "none" \/ h.raised # "none"
                                  THEN /\ JsonAbort(IF w.raised # "none"
                                                       THEN w.raised ELSE h.raised)
                                       /\ UNCHANGED <<json_document,
                                                      current_file_categories>>
                                  ELSE /\ jpc' = "objects"
                                       /\ raised' = raised
                                       /\ json_document' =
                                             [file |-> xml.root.filename,
                                              image_size |->
                                                 <<[width |-> w.v, height |-> h.v,
                                                    depth |-> 3]>>,
                                              annotations |-> <<>>,
                                              categories |-> <<>>]
                                       /\ current_file_categories' = <<>>
    /\ UNCHANGED <<subtree, processVars, datasetVars, global_classes, jsonDir>>

\* Lines 53-81: one iteration of the loop over root.findall('object');
\* object_name is the text of the next object's <name>.
HandleObject ==
    /\ jpc = "objects"
    /\ Len(origin.objects) < MaxObjects
    /\ \E object_name \in JsonNameTexts :
          LET k   == Len(origin.objects) + 1
              box == BndboxTexts(k)
          IN  /\ origin' = [origin EXCEPT !.objects =
                               Append(@, Object(k, object_name, Absent, Absent))]
              /\ IF object_name = Absent
                    THEN /\ JsonAbort("AttributeError")
                         /\ UNCHANGED <<global_classes, json_document,
                                        current_file_categories>>
                    ELSE \E classes \in
                            {IF DictHas(global_classes, object_name)
                                THEN global_classes
                                ELSE DictSet(global_classes, object_name,
                                             NextClassId(global_classes,
                                                         current_file_categories))} :
                           LET class_id == DictGet(classes, object_name)
                               xmin == PyFloat(box[1]).mant
                               ymin == PyFloat(box[2]).mant
                               xmax == PyFloat(box[3]).mant
                               ymax == PyFloat(box[4]).mant
                           IN  /\ global_classes' = classes
                               /\ current_file_categories' =
                                     DictSet(current_file_categories, class_id,
                                             object_name)
                               /\ json_document' =
                                     [json_document EXCEPT !.annotations =
                                         Append(@, [class_id |-> class_id,
                                                    top |-> ymin,
                                                    left |-> xmin,
                                                    width |-> xmax - xmin,
                                                    height |-> ymax - ymin])]
                               /\ jpc' = jpc
                               /\ raised' = raised
    /\ UNCHANGED <<subtree, processVars, datasetVars, jsonDir>>

\* Lines 83-92: the objects are done; the categories are filled in and the
\* document is dumped under output_path.
DumpJson ==
    /\ jpc = "objects"
    /\ LET dumped ==
              [json_document EXCEPT !.categories =
                  [i \in 1..Len(current_file_categories) |->
                      [class_id |-> current_file_categories[i][1],
                       name |-> current_file_categories[i][2]]]]
       IN  /\ json_document' = dumped
           /\ jsonDir' = WriteFile(jsonDir,
                                   JsonFilename(InputXmlFile(Cardinality(jsonDir) + 1)),
                                   dumped)
    /\ jpc' = "files"
    /\ UNCHANGED <<origin, subtree, raised, processVars, datasetVars,
                   global_classes, current_file_categories>>

\* input_xml_files is exhausted: transorm_voc_to_aws_json returns.
JsonReturn ==
    /\ jpc = "files"
    /\ jpc' = "returned"
    /\ UNCHANGED <<origin, subtree, raised, processVars, datasetVars,
                   global_classes, json_document, current_file_categories, jsonDir>>

JsonNext == OpenXmlFile \/ HandleObject \/ DumpJson \/ JsonReturn

SpecJson == JsonInit /\ [][JsonNext]_vars

\* ------------------------------------------------------------------------
\* Claims about transorm_voc_to_aws_json (SpecJson)
\* ------------------------------------------------------------------------

\* The labels of the objects read so far in the run: those of the documents
\* dumped and those of the document being read.
SeenLabels ==
    UNION {{f.content.categories[i].name : i \in 1..Len(f.content.categories)} :
              f \in jsonDir}
      \cup ({origin.objects[i].name : i \in 1..Len(origin.objects)} \ {Absent})

\* C11: class ids are stable and given in first-seen order: the label -> id
\* table is injective, its ids are 0..k-1 for the k labels seen so far, the
\* i-th label entered has id i-1, an id once given never changes, and every
\* annotation carries the id of its object's label.
C11_ClassIdsStable ==
    /\ [](LET k == Len(global_classes)
          IN  /\ \A i, j \in 1..k :
                    i # j => /\ global_classes[i][1] # global_classes[j][1]
                             /\ global_classes[i][2] # global_classes[j][2]
              /\ {global_classes[i][2] : i \in 1..k} = 0..(k - 1)
              /\ {global_classes[i][1] : i \in 1..k} = SeenLabels
              /\ \A i \in 1..k : global_classes[i][2] = i - 1
              /\ jpc = "objects" =>
                    \A i \in 1..Len(json_document.annotations) :
                       /\ DictHas(global_classes, origin.objects[i].name)
                       /\ json_document.annotations[i].class_id =
                             DictGet(global_classes, origin.objects[i].name)
              /\ \A f \in jsonDir :
                    \A i \in 1..Len(f.content.annotations) :
                       \E c \in 1..Len(f.content.categories) :
                          /\ f.content.categories[c].class_id =
                                f.content.annotations[i].class_id
                          /\ DictHas(global_classes, f.content.categories[c].name)
                          /\ DictGet(global_classes, f.content.categories[c].name) =
                                f.content.annotations[i].class_id)
    /\ [][\A i \in 1..Len(global_classes) :
             /\ i <= Len(global_classes')
             /\ global_classes'[i] = global_classes[i]]_vars

\* The second document shows two labels of the first in the opposite order
\* and its annotations carry the ids the first document gave them.
C11_Witness ==
    /\ jpc = "objects"
    /\ Cardinality(jsonDir) = 1
    /\ Len(global_classes) = 2
    /\ Len(json_document.annotations) = 2
    /\ json_document.annotations[1].class_id = 1
    /\ json_document.annotations[2].class_id = 0
    /\ \E f \in jsonDir :
          /\ Len(f.content.annotations) = 2
          /\ f.content.annotations[1].class_id = 0
          /\ f.content.annotations[2].class_id = 1

\* ------------------------------------------------------------------------
\* A further claim about process_dataset (Spec)
\* ------------------------------------------------------------------------

\* The identifier of an output file: its name up to the first ".".
IdentifierOf(name) == Split(name, ".")[1]

\* C12: whenever process_dataset stops handling a document, normally or on a
\* failed image copy, every annotation file written has an image file of the
\* same identifier.
C12_OutputsStayPaired ==
    \A a \in annDir :
       \E i \in imgDir : IdentifierOf(i.name) = IdentifierOf(a.name)

====
